---- MODULE Spec2Model ----
(***************************************************************************)
(* A model of blockchain.py: one node (the Blockchain object behind the   *)
(* Flask endpoints) together with the answers its registered peers give   *)
(* to GET /chain.                                                          *)
(*                                                                         *)
(* Byte strings are sequences of naturals.  SHA-256 is replaced by a      *)
(* small digest that keeps the two properties the program relies on: the  *)
(* first four hex characters vary with the input (so the proof-of-work    *)
(* puzzle has solutions and non-solutions), and distinct inputs have      *)
(* distinct digests (collision resistance).                               *)
(*                                                                         *)
(* Spec serves the requests one after another.  SpecSolve exercises the   *)
(* proof search on every last proof of a range.  SpecConc lets requests   *)
(* overlap: a GET /mine is split at the point between its proof search    *)
(* and its seal.                                                           *)
(***************************************************************************)
EXTENDS Integers, Sequences, FiniteSets, TLC

\* ------------------------------------------------------------------ bounds
MaxChain   == 2     \* the local node mines while its chain is shorter
MaxPending == 1     \* the pending buffer accepts client transactions below this
MaxProof   == 6     \* proofs searched / supplied by peers lie in 0..MaxProof
MaxLastProof == 120 \* proof_of_work is exercised on last proofs 0..MaxLastProof

\* ------------------------------------------------------- program constants
GenesisProof  == 100            \* new_block(previous_hash='1', proof=100)
GenesisPrev   == <<1>>          \* the string '1'
Difficulty    == 4              \* guess_hash[:4] == "0000"
HTTP_OK       == 200
RewardAmount  == 1

NodeIdentifier == "node"        \* str(uuid4()).replace('-', '')
RewardSender   == "0"

\* ------------------------------------------------------------- transactions
Transaction(sender, recipient, amount) ==
    [sender |-> sender, recipient |-> recipient, amount |-> amount]

\* what clients post to /transactions/new
ClientTransactions ==
    { Transaction("A", "B", 10), Transaction("B", "A", 20) }

RewardTransaction == Transaction(RewardSender, NodeIdentifier, RewardAmount)

\* ------------------------------------------------------------------ hashing
\* code point of an identifier inside the encoded block
Ord(s) ==
    CASE s = "0"    -> 0
      [] s = "A"    -> 1
      [] s = "B"    -> 2
      [] s = "node" -> 3
      [] s = "peer" -> 4

RECURSIVE Digits(_)
\* f'{n}' for a non-negative integer: its decimal digits
Digits(n) == IF n < 10 THEN <<n>> ELSE Digits(n \div 10) \o <<n % 10>>

\* the compression of the digest, cut down to the first byte, the last byte
\* and the length of the input
Mix(bytes) ==
    IF bytes = <<>> THEN 0
    ELSE (bytes[1] + 3 * bytes[Len(bytes)] + 7 * Len(bytes)) % 5

\* hashlib.sha256(bytes).hexdigest(): four leading hex characters that vary
\* with the input, followed by a part that identifies the input
sha256_hexdigest(bytes) == <<0, 0, 0, Mix(bytes)>> \o bytes

RECURSIVE DumpTransactions(_)
\* json.dumps of the transaction list, keys sorted: amount, recipient, sender
DumpTransactions(txs) ==
    IF txs = <<>> THEN <<>>
    ELSE <<Head(txs).amount, Ord(Head(txs).recipient), Ord(Head(txs).sender)>>
         \o DumpTransactions(Tail(txs))

\* json.dumps(block, sort_keys=True).encode(): index, previous_hash, proof,
\* timestamp, transactions; variable-length parts carry their length
json_dumps(block) ==
    <<block.index, Len(block.previous_hash)>> \o block.previous_hash
    \o <<block.proof, block.timestamp, Len(block.transactions)>>
    \o DumpTransactions(block.transactions)

hash(block) == sha256_hexdigest(json_dumps(block))

\* guess = f'{last_proof}{proof}'; guess_hash[:4] == "0000"
valid_proof(last_proof, proof) ==
    LET guess      == Digits(last_proof) \o Digits(proof)
        guess_hash == sha256_hexdigest(guess)
    IN  SubSeq(guess_hash, 1, Difficulty) = [i \in 1..Difficulty |-> 0]

RECURSIVE Search(_, _)
Search(last_proof, proof) ==
    IF valid_proof(last_proof, proof) THEN proof
    ELSE Search(last_proof, proof + 1)

\* the search only returns when a proof exists; within the proof bound
Solvable(last_proof) == \E p \in 0..MaxProof : valid_proof(last_proof, p)

\* the search started at 'proof = 1'
proof_of_work_from_one(last_proof) == Search(last_proof, 1)

\* proof = 0; while valid_proof(last_proof, proof) is False: proof += 1
proof_of_work(last_proof) == Search(last_proof, 0)

\* ------------------------------------------------------------------- blocks
\* None / an omitted previous_hash argument
None == <<>>

Block(index, timestamp, transactions, proof, previous_hash) ==
    [index |-> index, timestamp |-> timestamp, transactions |-> transactions,
     proof |-> proof, previous_hash |-> previous_hash]

last_block(ch) == ch[Len(ch)]

\* new_block with the link taken from the last block's own previous_hash
\* instead of the last block's hash
new_block_stale(ch, txs, proof, previous_hash, t) ==
    Block(Len(ch) + 1, t, txs, proof,
          IF previous_hash # None THEN previous_hash
          ELSE last_block(ch).previous_hash)

\* the block dict built by new_block: 'previous_hash or self.hash(self.chain[-1])'
new_block(ch, txs, proof, previous_hash, t) ==
    Block(Len(ch) + 1, t, txs, proof,
          IF previous_hash # None THEN previous_hash ELSE hash(last_block(ch)))

\* Blockchain.new_transaction: the buffer afterwards and the value returned
new_transaction(ch, txs, sender, recipient, amount) ==
    [current_transactions |-> Append(txs, Transaction(sender, recipient, amount)),
     index                |-> last_block(ch).index + 1]

\* Blockchain.__init__ at time t
Genesis(t) == new_block(<<>>, <<>>, GenesisProof, GenesisPrev, t)

\* mine() with the reward put in front of the buffer
MineOn_reward_first(ch, txs, who, t) ==
    LET last_proof == last_block(ch).proof
        proof      == proof_of_work(last_proof)
        buffer     == <<Transaction(RewardSender, who, RewardAmount)>> \o txs
        block      == new_block(ch, buffer, proof, None, t)
    IN  [chain |-> Append(ch, block), current_transactions |-> <<>>,
         block |-> block]

\* mine() with a new_block that does not reset the buffer
MineOn_keeps_buffer(ch, txs, who, t) ==
    LET last_proof == last_block(ch).proof
        proof      == proof_of_work(last_proof)
        buffer     == new_transaction(ch, txs, RewardSender, who, RewardAmount)
                          .current_transactions
        block      == new_block(ch, buffer, proof, None, t)
    IN  [chain |-> Append(ch, block), current_transactions |-> buffer,
         block |-> block]

\* mine() storing the new block over the last one instead of appending it
MineOn_in_place(ch, txs, who, t) ==
    LET last_proof == last_block(ch).proof
        proof      == proof_of_work(last_proof)
        buffer     == new_transaction(ch, txs, RewardSender, who, RewardAmount)
                          .current_transactions
        block      == new_block(ch, buffer, proof, None, t)
    IN  [chain |-> [ch EXCEPT ![Len(ch)] = block],
         current_transactions |-> <<>>, block |-> block]

\* the body of mine() on (ch, txs) at time t with reward recipient who
MineOn(ch, txs, who, t) ==
    LET last_proof == last_block(ch).proof
        proof      == proof_of_work(last_proof)
        buffer     == new_transaction(ch, txs, RewardSender, who, RewardAmount)
                          .current_transactions
        block      == new_block(ch, buffer, proof, None, t)
    IN  [chain |-> Append(ch, block), current_transactions |-> <<>>,
         block |-> block]

\* ---------------------------------------------------------------- validator
RECURSIVE valid_walk_proofs_only(_, _, _)
\* the while loop of valid_chain without the previous_hash comparison
valid_walk_proofs_only(ch, last, current_index) ==
    IF ~(current_index < Len(ch)) THEN TRUE
    ELSE LET block == ch[current_index + 1]
         IN  IF ~valid_proof(last.proof, block.proof) THEN FALSE
             ELSE valid_walk_proofs_only(ch, block, current_index + 1)

RECURSIVE valid_walk(_, _, _)
\* the while loop of valid_chain
valid_walk(ch, last, current_index) ==
    IF ~(current_index < Len(ch)) THEN TRUE
    ELSE LET block == ch[current_index + 1]      \* chain[current_index], 0-based
         IN  IF block.previous_hash # hash(last) THEN FALSE
             ELSE IF ~valid_proof(last.proof, block.proof) THEN FALSE
             ELSE valid_walk(ch, block, current_index + 1)

\* valid_chain on a non-empty list
valid_chain(ch) == valid_walk(ch, ch[1], 1)

\* what a call valid_chain(ch) does: chain[0] raises IndexError on []
valid_chain_outcome(ch) ==
    IF ch = <<>> THEN "IndexError"
    ELSE IF valid_chain(ch) THEN "True" ELSE "False"

\* ----------------------------------------------------------------- resolver
\* the local names of resolve_conflicts; chain is self.chain
ResolveStart(ch) ==
    [chain |-> ch, new_chain |-> None, max_length |-> Len(ch),
     raised |-> FALSE, verdicts |-> <<>>]

\* the loop body without 'max_length = length'
Examine_keeps_max(r, response) ==
    IF r.raised THEN r
    ELSE IF response.kind = "raise" THEN [r EXCEPT !.raised = TRUE]
    ELSE IF response.status_code # HTTP_OK THEN r
    ELSE IF ~(response.length > r.max_length) THEN r
    ELSE LET outcome == valid_chain_outcome(response.chain)
             seen    == Append(r.verdicts,
                               [chain |-> response.chain, outcome |-> outcome])
         IN  CASE outcome = "IndexError" ->
                    [r EXCEPT !.raised = TRUE, !.verdicts = seen]
               [] outcome = "False" -> [r EXCEPT !.verdicts = seen]
               [] outcome = "True" ->
                    [r EXCEPT !.new_chain = response.chain, !.verdicts = seen]

\* the loop body without the 'and self.valid_chain(chain)' condition
Examine_unvalidated(r, response) ==
    IF r.raised THEN r
    ELSE IF response.kind = "raise" THEN [r EXCEPT !.raised = TRUE]
    ELSE IF response.status_code # HTTP_OK THEN r
    ELSE IF ~(response.length > r.max_length) THEN r
    ELSE [r EXCEPT !.max_length = response.length,
                   !.new_chain = response.chain]

\* the loop body assigning self.chain as soon as a better chain is seen
Examine_eager(r, response) ==
    IF r.raised THEN r
    ELSE IF response.kind = "raise" THEN [r EXCEPT !.raised = TRUE]
    ELSE IF response.status_code # HTTP_OK THEN r
    ELSE IF ~(response.length > r.max_length) THEN r
    ELSE LET outcome == valid_chain_outcome(response.chain)
             seen    == Append(r.verdicts,
                               [chain |-> response.chain, outcome |-> outcome])
         IN  CASE outcome = "IndexError" ->
                    [r EXCEPT !.raised = TRUE, !.verdicts = seen]
               [] outcome = "False" -> [r EXCEPT !.verdicts = seen]
               [] outcome = "True" ->
                    [r EXCEPT !.max_length = response.length,
                              !.new_chain = response.chain,
                              !.chain = response.chain,
                              !.verdicts = seen]

\* the loop body comparing with 'length >= max_length'
Examine_or_equal(r, response) ==
    IF r.raised THEN r
    ELSE IF response.kind = "raise" THEN [r EXCEPT !.raised = TRUE]
    ELSE IF response.status_code # HTTP_OK THEN r
    ELSE IF ~(response.length >= r.max_length) THEN r
    ELSE LET outcome == valid_chain_outcome(response.chain)
             seen    == Append(r.verdicts,
                               [chain |-> response.chain, outcome |-> outcome])
         IN  CASE outcome = "IndexError" ->
                    [r EXCEPT !.raised = TRUE, !.verdicts = seen]
               [] outcome = "False" -> [r EXCEPT !.verdicts = seen]
               [] outcome = "True" ->
                    [r EXCEPT !.max_length = response.length,
                              !.new_chain = response.chain, !.verdicts = seen]

\* one iteration of 'for node in neighbours' on the answer of that node
Examine(r, response) ==
    IF r.raised THEN r
    ELSE IF response.kind = "raise" THEN [r EXCEPT !.raised = TRUE]
    ELSE IF response.status_code # HTTP_OK THEN r
    ELSE IF ~(response.length > r.max_length) THEN r
    ELSE LET outcome == valid_chain_outcome(response.chain)
             seen    == Append(r.verdicts,
                               [chain |-> response.chain, outcome |-> outcome])
         IN  CASE outcome = "IndexError" ->
                    [r EXCEPT !.raised = TRUE, !.verdicts = seen]
               [] outcome = "False" -> [r EXCEPT !.verdicts = seen]
               [] outcome = "True" ->
                    [r EXCEPT !.max_length = response.length,
                              !.new_chain = response.chain,
                              !.verdicts = seen]

RECURSIVE ExamineAll(_, _, _)
\* the for loop, in the iteration order of the set self.nodes
ExamineAll(r, order, responses) ==
    IF order = <<>> THEN r
    ELSE ExamineAll(Examine(r, responses[Head(order)]), Tail(order), responses)

\* 'if new_chain:' is false for None and for an empty list
Truthy(r) == r.new_chain # None /\ r.new_chain # <<>>

\* resolve_conflicts taking the chain of a peer that reports a greater length
\* as it comes: no valid_chain, no 'if new_chain'
resolve_conflicts_by_length(ch, order, responses) ==
    LET longer == { i \in 1..Len(order) :
                      /\ responses[order[i]].kind = "response"
                      /\ responses[order[i]].status_code = HTTP_OK
                      /\ responses[order[i]].length > Len(ch) }
    IN  IF longer = {}
        THEN [chain |-> ch, result |-> "Unchanged", verdicts |-> <<>>]
        ELSE [chain |-> responses[order[CHOOSE i \in longer : TRUE]].chain,
              result |-> "Replaced", verdicts |-> <<>>]

\* resolve_conflicts followed by consensus(): the chain afterwards and the
\* outcome; an exception leaves the handler before any assignment
resolve_conflicts(ch, order, responses) ==
    LET r == ExamineAll(ResolveStart(ch), order, responses)
    IN  IF r.raised
        THEN [chain |-> r.chain, result |-> "Error", verdicts |-> r.verdicts]
        ELSE IF Truthy(r)
        THEN [chain |-> r.new_chain, result |-> "Replaced", verdicts |-> r.verdicts]
        ELSE [chain |-> r.chain, result |-> "Unchanged", verdicts |-> r.verdicts]

\* ------------------------------------------------------------- peer registry
Addresses == {"http://p1:5000", "http://p1:5000/chain", "http://p2:5000"}

\* urlparse(address).netloc: the host:port between '//' and the path
Netloc(address) ==
    CASE address = "http://p1:5000"       -> "p1:5000"
      [] address = "http://p1:5000/chain" -> "p1:5000"
      [] address = "http://p2:5000"       -> "p2:5000"

RECURSIVE register_node(_, _)
\* 'for node in nodes: blockchain.register_node(node)'
register_node(registry, addresses) ==
    IF addresses = {} THEN registry
    ELSE LET a == CHOOSE x \in addresses : TRUE
         IN  register_node(registry \cup {Netloc(a)}, addresses \ {a})

\* ------------------------------------------------------------- peer answers
Times      == {0}               \* what time() returns on this node
PeerTimes  == {1}               \* what time() returns on a foreign peer
MaxPeerLen == MaxChain + 1      \* peers hold chains of up to this many blocks
PeerTime   == CHOOSE t \in PeerTimes : TRUE

\* a peer seals a block on the chain it holds
PeerMine(ch) == MineOn(ch, <<>>, "peer", last_block(ch).timestamp).chain

RECURSIVE PeerMined(_, _)
\* the chain a peer holds after sealing k blocks on ch
PeerMined(ch, k) == IF k = 0 THEN ch ELSE PeerMined(PeerMine(ch), k - 1)

\* chains of well-behaved peers: our chain extended by blocks the peer
\* mined, or the chain a foreign peer grew from its own genesis block
ForeignChain == PeerMined(<<Genesis(PeerTime)>>, MaxPeerLen - 1)

HonestPeerChains(ch) ==
    { c \in { PeerMined(ch, k) : k \in 1..2 } : Len(c) <= MaxPeerLen }
    \cup { ForeignChain }

Tamper(ch, i, field, value) == [ch EXCEPT ![i][field] = value]

\* chains of misbehaving peers: one field of one block of an honest chain
\* overwritten
TamperedPeerChains ==
    LET c == ForeignChain
        n == Len(c)
    IN  { Tamper(c, n, "previous_hash", GenesisPrev),
          Tamper(c, 2, "proof", c[2].proof + 1),
          Tamper(c, n, "index", n + MaxPeerLen),
          Tamper(c, 1, "transactions", <<RewardTransaction>>) }

\* a chain grown by honest mining on a first block of the peer's own making:
\* another proof and a transaction paid to the peer
ForgedChain ==
    PeerMine(<<[Genesis(PeerTime) EXCEPT
                  !.proof = 0,
                  !.transactions = <<Transaction(RewardSender, "peer", RewardAmount)>>]>>)

Raise == [kind |-> "raise", status_code |-> 0, length |-> 0, chain |-> <<>>]

Response(status_code, length, ch) ==
    [kind |-> "response", status_code |-> status_code, length |-> length,
     chain |-> ch]

\* what requests.get(f'http://{node}/chain') can produce: an exception, an
\* error status, or a body with a chain and a length; a peer that reports a
\* length other than its chain's reports more than any chain has
Answers(ch) ==
    {Raise, Response(500, 0, <<>>)}
    \cup { Response(HTTP_OK, Len(c), c) :
             c \in HonestPeerChains(ch) \cup TamperedPeerChains
                   \cup {ForgedChain} }
    \cup { Response(HTTP_OK, MaxPeerLen + 1, c) :
             c \in {<<>>, <<Genesis(PeerTime)>>} }

\* the iteration orders of a set
Orders(S) ==
    { o \in [1..Cardinality(S) -> S] : \A i, j \in 1..Cardinality(S) :
          i # j => o[i] # o[j] }

\* -------------------------------------------------------------------- state
VARIABLES
    chain,                  \* blockchain.chain
    current_transactions,   \* blockchain.current_transactions
    nodes,                  \* blockchain.nodes
    last,                   \* the request being answered: its inputs, the
                            \* state it started from and what it returns;
                            \* Idle between requests
    miners                  \* per thread serving GET /mine: the locals of
                            \* mine() between its proof search and its seal

vars == <<chain, current_transactions, nodes, last, miners>>

\* threads of the server that can be inside mine() at the same time
Workers == {"w1", "w2"}

\* no mine() in progress on this thread
NotMining ==
    [pc |-> "idle", last_proof |-> 0, proof |-> 0,
     arrived |-> {}, overtaken |-> FALSE]

\* the transactions posted, and whether another thread sealed a block, since
\* a thread's proof search began
Arrived(tx) ==
    [w \in Workers |->
        IF miners[w].pc = "searching"
        THEN [miners[w] EXCEPT !.arrived = @ \cup {tx}] ELSE miners[w]]

NoAnswers == [n \in {} |-> Raise]

Idle ==
    [op |-> "idle", status |-> 0, ret |-> 0,
     chain |-> <<>>, current_transactions |-> <<>>, nodes |-> {},
     order |-> <<>>, responses |-> NoAnswers, result |-> "", verdicts |-> <<>>]

Served(op, status, ret, order, responses, result, verdicts) ==
    [op |-> op, status |-> status, ret |-> ret,
     chain |-> chain, current_transactions |-> current_transactions,
     nodes |-> nodes,
     order |-> order, responses |-> responses, result |-> result,
     verdicts |-> verdicts]

\* blockchain = Blockchain(); the requests are served one after another
Init ==
    /\ \E t \in Times : chain = <<Genesis(t)>>
    /\ current_transactions = <<>>
    /\ nodes = {}
    /\ last = Idle
    /\ miners = [w \in Workers |-> NotMining]

\* POST /transactions/new with a body that has all three keys
SubmitTransaction ==
    /\ last = Idle
    /\ Len(current_transactions) < MaxPending
    /\ \E values \in ClientTransactions :
         LET r == new_transaction(chain, current_transactions,
                                  values.sender, values.recipient, values.amount)
         IN  /\ current_transactions' = r.current_transactions
             /\ last' = Served("submit", 201, r.index, <<>>, NoAnswers, "", <<>>)
             /\ miners' = Arrived(values)
    /\ UNCHANGED <<chain, nodes>>

\* POST /transactions/new with a key missing: 'Missing values', 400
SubmitMalformed ==
    /\ last = Idle
    /\ last' = Served("submit", 400, 0, <<>>, NoAnswers, "", <<>>)
    /\ UNCHANGED <<chain, current_transactions, nodes, miners>>

\* GET /mine; time() returns t
mine ==
    /\ last = Idle
    /\ Len(chain) < MaxChain
    /\ Solvable(last_block(chain).proof)
    /\ \E t \in Times :
         LET m == MineOn(chain, current_transactions, NodeIdentifier, t)
         IN  /\ chain' = m.chain
             /\ current_transactions' = m.current_transactions
             /\ last' = Served("mine", 200, m.block.index, <<>>, NoAnswers, "", <<>>)
    /\ UNCHANGED <<nodes, miners>>

\* POST /nodes/register with a list of addresses
register_nodes ==
    /\ last = Idle
    /\ \E addresses \in SUBSET Addresses :
         /\ nodes' = register_node(nodes, addresses)
         /\ last' = Served("register", 201, 0, <<>>, NoAnswers, "", <<>>)
    /\ UNCHANGED <<chain, current_transactions, miners>>

\* GET /nodes/resolve that drops the pending transactions when it replaces
\* the chain
consensus_drops_pending ==
    /\ last = Idle
    /\ \E order \in Orders(nodes) :
       \E responses \in [nodes -> Answers(chain)] :
         LET r == resolve_conflicts(chain, order, responses)
         IN  /\ chain' = r.chain
             /\ current_transactions' =
                    IF r.result = "Replaced" THEN <<>> ELSE current_transactions
             /\ last' = Served("resolve",
                               IF r.result = "Error" THEN 500 ELSE 200, 0,
                               order, responses, r.result, r.verdicts)
    /\ UNCHANGED <<nodes, miners>>

\* GET /nodes/resolve
consensus ==
    /\ last = Idle
    /\ \E order \in Orders(nodes) :
       \E responses \in [nodes -> Answers(chain)] :
         LET r == resolve_conflicts(chain, order, responses)
         IN  /\ chain' = r.chain
             /\ last' = Served("resolve",
                               IF r.result = "Error" THEN 500 ELSE 200, 0,
                               order, responses, r.result, r.verdicts)
    /\ UNCHANGED <<current_transactions, nodes, miners>>

\* the response leaves the server, which takes the next request
Respond ==
    /\ last # Idle
    /\ last' = Idle
    /\ miners' = [w \in Workers |->
                    IF miners[w].pc = "sealed" THEN NotMining ELSE miners[w]]
    /\ UNCHANGED <<chain, current_transactions, nodes>>

Next ==
    \/ SubmitTransaction
    \/ SubmitMalformed
    \/ mine
    \/ register_nodes
    \/ consensus
    \/ Respond

Spec == Init /\ [][Next]_vars

\* ------------------------------------------------- the proof search alone
\* a node whose one-block chain carries an arbitrary proof (the chain after
\* adopting a peer's one-block chain, whose proof field nothing constrains)
InitSolve ==
    /\ \E t \in Times : \E last_proof \in 0..MaxLastProof :
         chain = <<[Genesis(t) EXCEPT !.proof = last_proof]>>
    /\ current_transactions = <<>>
    /\ nodes = {}
    /\ last = Idle
    /\ miners = [w \in Workers |-> NotMining]

NextSolve ==
    \/ mine
    \/ Respond

SpecSolve == InitSolve /\ [][NextSolve]_vars

\* -------------------------------------------------- requests served at once
\* app.run serves each request on a thread of its own and blockchain.py
\* takes no lock, so a GET /mine is two steps with anything in between: the
\* read of the last proof with the search it starts, and the seal.

\* the seal working on a buffer captured before the transactions arrived:
\* the block holds the reward alone and the buffer is cleared all the same
Seal_stale_buffer(ch, txs, proof, who, t) ==
    LET buffer == new_transaction(ch, <<>>, RewardSender, who, RewardAmount)
                      .current_transactions
        block  == new_block(ch, buffer, proof, None, t)
    IN  [chain |-> Append(ch, block), current_transactions |-> <<>>,
         block |-> block]

\* lines 181-188 of mine() with the proof found earlier: the reward goes into
\* the buffer as it is now, new_block seals on the chain as it is now
Seal(ch, txs, proof, who, t) ==
    LET buffer == new_transaction(ch, txs, RewardSender, who, RewardAmount)
                      .current_transactions
        block  == new_block(ch, buffer, proof, None, t)
    IN  [chain |-> Append(ch, block), current_transactions |-> <<>>,
         block |-> block]

\* a node with one registered peer
InitConc ==
    /\ \E t \in Times : chain = <<Genesis(t)>>
    /\ current_transactions = <<>>
    /\ nodes = register_node({}, {"http://p1:5000"})
    /\ last = Idle
    /\ miners = [w \in Workers |-> NotMining]

\* last_block = blockchain.last_block; last_proof = last_block['proof'];
\* proof = blockchain.proof_of_work(last_proof)
MineSearch(w) ==
    /\ last = Idle
    /\ miners[w].pc = "idle"
    /\ Len(chain) < MaxChain
    /\ Solvable(last_block(chain).proof)
    /\ miners' = [miners EXCEPT ![w] =
                    [pc |-> "searching",
                     last_proof |-> last_block(chain).proof,
                     proof |-> proof_of_work(last_block(chain).proof),
                     arrived |-> {}, overtaken |-> FALSE]]
    /\ UNCHANGED <<chain, current_transactions, nodes, last>>

\* blockchain.new_transaction(sender="0", ...); block = blockchain.new_block(proof)
MineSeal(w) ==
    /\ last = Idle
    /\ miners[w].pc = "searching"
    /\ Len(chain) <= MaxChain       \* the search began on a shorter chain
    /\ \E t \in Times :
         LET m == Seal(chain, current_transactions, miners[w].proof,
                       NodeIdentifier, t)
         IN  /\ chain' = m.chain
             /\ current_transactions' = m.current_transactions
             /\ last' = Served("mine", 200, m.block.index, <<>>, NoAnswers, "", <<>>)
    /\ miners' = [v \in Workers |->
                    IF v = w THEN [miners[v] EXCEPT !.pc = "sealed"]
                    ELSE IF miners[v].pc = "searching"
                         THEN [miners[v] EXCEPT !.overtaken = TRUE]
                         ELSE miners[v]]
    /\ UNCHANGED nodes

NextConc ==
    \/ \E w \in Workers : MineSearch(w)
    \/ \E w \in Workers : MineSeal(w)
    \/ SubmitTransaction
    \/ consensus
    \/ Respond

SpecConc == InitConc /\ [][NextConc]_vars

\* ================================================================== claims
\* the state a request started from and the state it left
Resolved == last.op = "resolve"
Mined    == last.op = "mine"
Before   == last.chain

Linked(ch) ==
    \A i \in 2..Len(ch) :
        /\ ch[i].previous_hash = hash(ch[i - 1])
        /\ valid_proof(ch[i - 1].proof, ch[i].proof)

\* C1: with the requests served one after another, every block after the
\* first of the local chain carries the hash of the block before it and a
\* proof that solves the puzzle of the proof before it.
C1_LinkInvariant == Linked(chain)

\* a block was mined on top of a chain adopted from a peer
C1_Witness ==
    /\ Mined
    /\ Len(chain) >= 2
    /\ chain[1] = Genesis(PeerTime)

\* the peers whose answer carries a chain the validator accepts and that has
\* more blocks than the local chain had
Answered(n)    == last.responses[n].kind = "response"
                  /\ last.responses[n].status_code = HTTP_OK
TruthfulAll    == \A n \in last.nodes :
                      /\ Answered(n)
                      /\ last.responses[n].length = Len(last.responses[n].chain)
ValidLonger(n) == /\ Answered(n)
                  /\ Len(last.responses[n].chain) > Len(Before)
                  /\ valid_chain(last.responses[n].chain)

\* C2: when every registered peer answers with its chain and its true length
\* and some peer chain is valid and longer than the local one, resolve
\* reports Replaced and the local chain becomes a valid longer peer chain of
\* the greatest length among them.
C2_LongestValidWins ==
    (Resolved /\ TruthfulAll /\ \E n \in last.nodes : ValidLonger(n))
    => /\ last.result = "Replaced"
       /\ \E n \in last.nodes : ValidLonger(n) /\ chain = last.responses[n].chain
       /\ \A n \in last.nodes : ValidLonger(n)
              => Len(chain) >= Len(last.responses[n].chain)

\* two peers answer with valid longer chains of different lengths, the
\* shorter of the two examined last
C2_Witness ==
    /\ Resolved /\ TruthfulAll
    /\ Len(last.order) = 2
    /\ ValidLonger(last.order[1]) /\ ValidLonger(last.order[2])
    /\ Len(last.responses[last.order[2]].chain)
         < Len(last.responses[last.order[1]].chain)

Outcome(n) == valid_chain_outcome(last.responses[n].chain)
ClaimsLonger(n) ==
    /\ Answered(n)
    /\ \/ last.responses[n].length > Len(Before)
       \/ Len(last.responses[n].chain) > Len(Before)

\* C3: after a resolve the local chain is the chain it was or a chain a peer
\* supplied and the validator accepts; when every peer has answered and each
\* peer that reports or supplies more blocks than the local chain has a
\* chain the validator rejects, the result is Unchanged.
C3_InvalidNeverAdopted ==
    Resolved
    => /\ \/ chain = Before
          \/ \E n \in last.nodes : /\ Answered(n)
                                   /\ chain = last.responses[n].chain
                                   /\ Outcome(n) = "True"
       /\ ( /\ \A n \in last.nodes : last.responses[n].kind = "response"
            /\ \E n \in last.nodes : ClaimsLonger(n)
            /\ \A n \in last.nodes : ClaimsLonger(n) => Outcome(n) = "False" )
          => (last.result = "Unchanged" /\ chain = Before)

\* a peer answered with a longer chain that has a broken link or a bad
\* proof, and it was validated and rejected
C3_Witness ==
    /\ Resolved
    /\ \A n \in last.nodes : last.responses[n].kind = "response"
    /\ \E n \in last.nodes :
          /\ ClaimsLonger(n) /\ Outcome(n) = "False"
          /\ last.responses[n].length > Len(Before) + 1
    /\ \E k \in 1..Len(last.verdicts) : last.verdicts[k].outcome = "False"
    /\ last.result = "Unchanged"

\* C4 (as claimed): a resolve replaces the local chain only by a chain with
\* more blocks, whatever length the peer reports, so the local chain never
\* gets shorter across a resolve.
C4_ActualLengthGrows ==
    Resolved
    => /\ Len(chain) >= Len(Before)
       /\ (last.result = "Replaced" => Len(chain) > Len(Before))

\* C5 (as claimed): a resolve in which the fetch of a peer fails still ends
\* with Replaced or Unchanged.
C5_FailingPeerSkipped ==
    (Resolved /\ \E n \in last.nodes : last.responses[n].kind = "raise")
    => last.result \in {"Replaced", "Unchanged"}

\* C6: a resolve that ends Unchanged or ends in a failure leaves the local
\* chain as it was, and the local chain after any resolve is the old chain
\* or one peer's chain as a whole.
C6_AllOrNothing ==
    Resolved
    => /\ (last.result # "Replaced" => chain = Before)
       /\ \/ chain = Before
          \/ \E n \in last.nodes : chain = last.responses[n].chain

\* a valid longer chain had been found when a later peer made the run fail
C6_Witness ==
    /\ Resolved
    /\ last.result = "Error"
    /\ Len(last.order) = 2
    /\ ValidLonger(last.order[1])
    /\ last.responses[last.order[1]].length > Len(Before)
    /\ chain = Before

\* C7 (as claimed): the index new_transaction returns is the chain length
\* plus one.
C7_ReturnsNextIndex ==
    (last.op = "submit" /\ last.status = 201) => last.ret = Len(chain) + 1

\* C8 (as claimed): the block a mine seals has index N+1 and holds the reward
\* followed by the pending transactions, and the buffer is empty afterwards.
C8_RewardFirst ==
    Mined
    => /\ chain = Append(Before, last_block(chain))
       /\ last_block(chain).index = Len(Before) + 1
       /\ last_block(chain).transactions
            = <<RewardTransaction>> \o last.current_transactions
       /\ current_transactions = <<>>

\* C8 (amended): the block a mine seals has index N+1 and holds the pending
\* transactions in submission order followed by the reward, and the buffer
\* is empty afterwards.
C8_RewardLast ==
    Mined
    => /\ chain = Append(Before, last_block(chain))
       /\ last_block(chain).index = Len(Before) + 1
       /\ last_block(chain).transactions
            = last.current_transactions \o <<RewardTransaction>>
       /\ current_transactions = <<>>

\* a mine sealed a buffer that held a client transaction
C8_Witness ==
    /\ Mined
    /\ Len(last.current_transactions) >= 1
    /\ Len(last_block(chain).transactions) = Len(last.current_transactions) + 1

\* the values a field of a block of ch can be overwritten with
FieldValues(ch, field) ==
    CASE field = "previous_hash" ->
             {GenesisPrev, hash(Genesis(PeerTime))}
             \cup { hash(ch[j]) : j \in 1..Len(ch) }
      [] field = "proof" -> 0..MaxProof \cup {GenesisProof}
      [] field = "transactions" ->
             {<<>>, <<RewardTransaction>>}
             \cup { <<t>> : t \in ClientTransactions }
             \cup { <<t, RewardTransaction>> : t \in ClientTransactions }

TamperFields == {"previous_hash", "proof", "transactions"}

\* C9 (as claimed), on the chain the node holds between two requests: the
\* validator accepts every chain that satisfies the link invariant and rejects every chain obtained from one by changing one of
\* previous_hash, proof or transactions in one block, whichever block it is.
C9_AnyTamperDetected ==
    last = Idle
    =>
    /\ Linked(chain) => valid_chain(chain)
    /\ \A i \in 1..Len(chain) : \A field \in TamperFields :
       \A value \in FieldValues(chain, field) :
          value # chain[i][field] => ~valid_chain(Tamper(chain, i, field, value))

\* C9 (amended), on the chain the node holds between two requests: the
\* validator accepts every chain that satisfies the link invariant and rejects every chain obtained from one by changing one of
\* previous_hash, proof or transactions in a block that has a successor, or
\* previous_hash in the last block of a chain of two or more blocks.
C9_TamperBeforeLastDetected ==
    last = Idle
    =>
    /\ Linked(chain) => valid_chain(chain)
    /\ \A i \in 1..Len(chain) : \A field \in TamperFields :
       \A value \in FieldValues(chain, field) :
          ( /\ value # chain[i][field]
            /\ \/ i < Len(chain)
               \/ (field = "previous_hash" /\ i > 1) )
          => ~valid_chain(Tamper(chain, i, field, value))

\* the node holds a chain with a first, a middle and a last block; changed
\* transactions are detected in the first and the middle block and go
\* unnoticed in the last
C9_Witness ==
    /\ last = Idle
    /\ Len(chain) >= 3
    /\ valid_chain(chain)
    /\ ~valid_chain(Tamper(chain, 1, "transactions", <<RewardTransaction>>))
    /\ ~valid_chain(Tamper(chain, 2, "transactions", <<>>))
    /\ valid_chain(Tamper(chain, Len(chain), "transactions", <<>>))

\* C10 (as claimed): the validator returns true, without failing, for an
\* empty candidate chain and for a candidate chain of one block.
C10_TrivialChainsValid ==
    Resolved
    => \A k \in 1..Len(last.verdicts) :
          Len(last.verdicts[k].chain) <= 1 => last.verdicts[k].outcome = "True"

\* ---------------------------------------------------------------------- C11
\* C11: the proof a mine seals is the smallest non-negative integer that
\* solves the puzzle for the last block's proof: it satisfies valid_proof and
\* no smaller non-negative integer does; and whenever a solution exists the
\* search returns one.
C11_SmallestProof ==
    /\ Mined =>
          LET last_proof == last_block(Before).proof
              x          == last_block(chain).proof
          IN  /\ valid_proof(last_proof, x)
              /\ \A y \in 0..(x - 1) : ~valid_proof(last_proof, y)
    /\ (last = Idle /\ Solvable(last_block(chain).proof)) =>
          proof_of_work(last_block(chain).proof) \in 0..MaxProof

\* a search that had to step over rejected candidates
C11_Witness ==
    /\ Mined
    /\ last_block(chain).proof >= 2
    /\ ~valid_proof(last_block(Before).proof, 0)

\* ---------------------------------------------------------------------- C12
IsPrefix(a, b) == Len(a) <= Len(b) /\ SubSeq(b, 1, Len(a)) = a

\* C12: every step other than a resolve that reports Replaced keeps all
\* existing blocks unchanged and in place (the chain before is a prefix of
\* the chain after); submit and register leave the chain as it is; a mine
\* appends exactly one block.
C12_AppendOnly ==
    [][ /\ ~(last'.op = "resolve" /\ last'.result = "Replaced") =>
              IsPrefix(chain, chain')
        /\ last'.op \in {"submit", "register"} => chain' = chain
        /\ last'.op = "mine" => Len(chain') = Len(chain) + 1 ]_vars

\* a mine that sealed a buffer with a client transaction on top of the chain
C12_Witness ==
    /\ Mined
    /\ last.current_transactions # <<>>
    /\ Before # <<>>
    /\ chain = Append(Before, last_block(chain))

\* ---------------------------------------------------------------------- C13
\* C13: in every reachable state, also after a resolve replaced the chain by
\* a peer's, the first block of the chain is the genesis block: index 1, the
\* sentinel previous_hash, the sentinel proof and no transactions.
C13_GenesisFixed ==
    /\ chain[1].index = 1
    /\ chain[1].previous_hash = GenesisPrev
    /\ chain[1].proof = GenesisProof
    /\ chain[1].transactions = <<>>

\* ---------------------------------------------------------------------- C14
Sealing(w) == Mined /\ miners[w].pc = "sealed"

\* C14: with requests served at the same time, in every reachable state each
\* block after the first carries the hash of its predecessor and a proof that
\* solves the puzzle for the predecessor's proof, also when two mines read
\* the same last block before either seals and when a resolve replaces the
\* chain between a mine's read of the last proof and its seal.
C14_LinkUnderInterleaving ==
    \A i \in 2..Len(chain) :
        /\ chain[i].previous_hash = hash(chain[i - 1])
        /\ valid_proof(chain[i - 1].proof, chain[i].proof)

\* the same, for the block sealed by a mine that another mine overtook
C14_TwoMines ==
    \A w \in Workers :
        (Sealing(w) /\ miners[w].overtaken) =>
            valid_proof(last_block(Before).proof, last_block(chain).proof)

\* the same, for the block sealed by a mine that read its last proof from a
\* chain a resolve has replaced since
C14_ResolveBeforeSeal ==
    \A w \in Workers :
        (Sealing(w) /\ ~miners[w].overtaken) =>
            valid_proof(last_block(Before).proof, last_block(chain).proof)

\* ---------------------------------------------------------------------- C15
InBlock(tx, block) ==
    \E i \in 1..Len(block.transactions) : block.transactions[i] = tx

Position(n) == CHOOSE i \in 1..Len(last.order) : last.order[i] = n

Best(n) ==
    /\ ValidLonger(n)
    /\ \A m \in last.nodes :
          ValidLonger(m) => Len(last.responses[m].chain) <= Len(last.responses[n].chain)

RECURSIVE Sealed(_)
\* the transactions of the blocks of a chain, block after block
Sealed(ch) ==
    IF ch = <<>> THEN <<>> ELSE Head(ch).transactions \o Sealed(Tail(ch))

\* every transaction the node holds, with its multiplicity: sealed or pending
Ledger(ch, txs) == Sealed(ch) \o txs

\* C17: over submits and mines without chain replacement every transaction
\* is in exactly one place, the pending buffer or one sealed block: a submit
\* adds its transaction once, at the end of the buffer; a mine moves the
\* whole buffer, in order and followed by the reward, into the new block and
\* leaves the buffer empty; nothing else adds, drops or repeats a transaction.
C17_MovedNotCopied ==
    [][ LET before == Ledger(chain, current_transactions)
            after  == Ledger(chain', current_transactions')
        IN  /\ (last'.op = "submit" /\ last'.status = 201) =>
                  \E tx \in ClientTransactions :
                      /\ current_transactions' = Append(current_transactions, tx)
                      /\ after = Append(before, tx)
            /\ (last'.op = "submit" /\ last'.status # 201) => after = before
            /\ last'.op = "mine" =>
                  /\ last_block(chain').transactions
                         = Append(current_transactions, RewardTransaction)
                  /\ current_transactions' = <<>>
                  /\ after = Append(before, RewardTransaction)
            /\ last'.op \in {"register", "idle"} => after = before
            /\ (last'.op = "resolve" /\ last'.result # "Replaced") => after = before
      ]_vars

\* a submitted transaction sits in the buffer, then a mine moves it into the
\* block it seals: one more transaction held (the reward), none twice
C17_Witness ==
    /\ Mined
    /\ Len(last.current_transactions) = MaxPending
    /\ current_transactions = <<>>
    /\ Ledger(chain, current_transactions)
         = Append(Ledger(Before, last.current_transactions), RewardTransaction)

\* ---------------------------------------------------------------------- C18
\* C18: in every reachable state, also after a resolve adopted a peer's chain,
\* the block at position i of the chain has index i, and the block a mine
\* seals has the index "length of the chain before" + 1.
C18_IndicesArePositions ==
    /\ \A i \in 1..Len(chain) : chain[i].index = i
    /\ Mined => last_block(chain).index = Len(Before) + 1

\* ---------------------------------------------------------------------- C19
\* C19: in every reachable state the local chain has at least one block,
\* whatever the peers answer, also an empty chain with a large reported
\* length; so last_block is always defined.
C19_NeverEmpty ==
    /\ Len(chain) >= 1
    /\ last_block(chain) \in { chain[i] : i \in 1..Len(chain) }
    /\ Resolved => (Len(Before) >= 1 /\ chain # <<>>)

\* a peer answered with an empty chain and a length greater than the local
\* one, and the resolve examined that answer
C19_Witness ==
    /\ Resolved
    /\ chain # <<>>
    /\ \E n \in last.nodes :
          /\ Answered(n)
          /\ last.responses[n].chain = <<>>
          /\ last.responses[n].length > Len(Before)
    /\ \E i \in 1..Len(last.verdicts) : last.verdicts[i].chain = <<>>

\* ---------------------------------------------------------------------- C20
\* C20: a resolve, whether it reports Replaced, Unchanged or fails, leaves
\* the pending buffer and the peer registry exactly as they were; and no
\* request other than a peer registration changes the peer registry.
C20_ResolveFrame ==
    /\ Resolved => /\ current_transactions = last.current_transactions
                   /\ nodes = last.nodes
    /\ last.op \in {"submit", "mine"} => nodes = last.nodes

\* a resolve replaced the chain of a node that has pending transactions
C20_Witness ==
    /\ Resolved
    /\ last.result = "Replaced"
    /\ last.current_transactions # <<>>
    /\ current_transactions = last.current_transactions
    /\ nodes = last.nodes

====
